---- MODULE Spec2Model ----
(***************************************************************************)
(* Model of packages/better-auth/src/adapters/drizzle-adapter/             *)
(* drizzle-adapter.ts: the condition compiler (convertWhereClause), the    *)
(* schema/field resolver (getSchema, getModelName, getField), the record   *)
(* transformer (transformInput, transformOutput), the write reconciler     *)
(* (withReturning) and the CRUD facade built from them.                    *)
(*                                                                         *)
(* JavaScript values are represented as follows.                           *)
(*   - an object is a TLA+ record; a property that is undefined is a key   *)
(*     that is absent from the record;                                     *)
(*   - a string stored in a column is a sequence of one-character strings  *)
(*     (so that LIKE patterns can be built and matched);                   *)
(*   - identities and numeric columns are positive integers (truthy);      *)
(*   - the value of a filter clause is [num |-> n], [str |-> s] or         *)
(*     [arr |-> <<...>>] (the last one is what Array.isArray accepts);     *)
(*   - undefined and null results are the records Undefined and Null.      *)
(***************************************************************************)
EXTENDS Integers, Sequences, FiniteSets, TLC

VARIABLES
    config,     \* DrizzleAdapterConfig and BetterAuthOptions of the adapter
    table,      \* rows of the "user" table held by the execution engine
    req,        \* the facade call in progress (its arguments and position)
    log,        \* statements the call in progress has issued to the engine
    hookCalls,  \* invocations of options.advanced.generateId by the call
    foreign,    \* statements of other requests executed since the call's write
    cin,        \* input of the condition compiler run: [where, row]
    cout,       \* output of the condition compiler run
    tin,        \* input of the record transformer run: [model, data]
    tout        \* output of the record transformer run

vars == <<config, table, req, log, hookCalls, foreign, cin, cout, tin, tout>>

(***************************************************************************)
(* Bounds of the model.                                                    *)
(***************************************************************************)
MaxRows == 2
MaxClauses == 3

(***************************************************************************)
(* Values.                                                                 *)
(***************************************************************************)
Undefined == [js |-> "undefined"]
Null == [js |-> "null"]
EmptyObject == <<>>

A == <<"a">>
B == <<"b">>
AB == <<"a", "b">>
BA == <<"b", "a">>

Has(obj, key) == key \in DOMAIN obj
Put(obj, key, value) == (key :> value) @@ obj

(***************************************************************************)
(* The logical schema (getAuthTables(options)) and the drizzle schema      *)
(* object (config.schema || db._.fullSchema).  "user" renames name to      *)
(* full_name, gives age a default and declares nick, which the drizzle     *)
(* table lacks; "session" is stored under the explicit model name          *)
(* "sessions" and renames userId to user_id.                               *)
(***************************************************************************)
AuthTables ==
    [user |->
        [modelName |-> "user",
         order |-> <<"name", "age", "nick">>,
         fields |-> [name |-> [fieldName |-> "full_name"],
                     age |-> [defaultValue |-> 7],
                     nick |-> EmptyObject]],
     session |->
        [modelName |-> "sessions",
         order |-> <<"token", "userId", "ttl">>,
         fields |-> [token |-> EmptyObject,
                     userId |-> [fieldName |-> "user_id"],
                     ttl |-> [fieldName |-> "ttl", defaultValue |-> 9]]]]

Models == DOMAIN AuthTables

FullSchema ==
    [user |-> {"id", "full_name", "age"},
     sessions |-> {"id", "token", "user_id", "ttl"}]

BetterAuthError(name, field, model) ==
    [name |-> name, origin |-> "adapter", field |-> field, model |-> model]

TypeError(field, model) ==
    [name |-> "TypeError", origin |-> "adapter", field |-> field, model |-> model]

EngineError(name) ==
    [name |-> name, origin |-> "engine", field |-> "", model |-> ""]

(***************************************************************************)
(* Schema / field resolver.                                                *)
(***************************************************************************)
FieldKnown(model, field) == field \in DOMAIN AuthTables[model].fields

ColumnOf(f, field) == IF Has(f, "fieldName") THEN f.fieldName ELSE field

\* getField: "id" passes through; any other field is looked up in the field
\* metadata, and reading .fieldName of a missing entry is a TypeError.
getField(model, field) ==
    IF field = "id" THEN [ok |-> TRUE, column |-> "id"]
    ELSE IF ~FieldKnown(model, field)
         THEN [ok |-> FALSE, error |-> TypeError(field, model)]
         ELSE [ok |-> TRUE,
               column |-> ColumnOf(AuthTables[model].fields[field], field)]

getModelName(cfg, model) ==
    IF AuthTables[model].modelName /= model THEN AuthTables[model].modelName
    ELSE IF cfg.usePlural THEN
        (IF model = "user" THEN "users" ELSE "sessions")
    ELSE model

getSchema(cfg, modelName) ==
    IF ~cfg.hasSchema
    THEN [ok |-> FALSE, error |-> BetterAuthError("SchemaMissing", "", modelName)]
    ELSE LET model == getModelName(cfg, modelName) IN
         IF model \notin DOMAIN FullSchema
         THEN [ok |-> FALSE, error |-> BetterAuthError("ModelNotFound", "", model)]
         ELSE [ok |-> TRUE, columns |-> FullSchema[model]]

(***************************************************************************)
(* Predicate fragments of the execution engine (drizzle-orm's eq, ne, lt,  *)
(* lte, gt, gte, inArray, like, and, or) and their evaluation on a row.    *)
(* A comparison with a column that is NULL (absent from the row) is not    *)
(* satisfied.                                                              *)
(***************************************************************************)
Leaf(op, column, value) == [op |-> op, column |-> column, value |-> value]
Like(column, pattern) == [op |-> "like", column |-> column, pattern |-> pattern]
and(conditions) == [op |-> "and", args |-> conditions]
or(conditions) == [op |-> "or", args |-> conditions]

IsLeaf(fragment) == fragment.op \notin {"and", "or"}

RECURSIVE LikeMatch(_, _)
LikeMatch(s, p) ==
    IF p = <<>> THEN s = <<>>
    ELSE IF Head(p) = "%"
         THEN LikeMatch(s, Tail(p)) \/ (s /= <<>> /\ LikeMatch(Tail(s), p))
         ELSE s /= <<>> /\ Head(s) = Head(p) /\ LikeMatch(Tail(s), Tail(p))

ScalarOf(value) == IF Has(value, "num") THEN value.num ELSE value.str

EvalLeaf(fragment, row) ==
    /\ Has(row, fragment.column)
    /\ LET x == row[fragment.column] IN
       CASE fragment.op = "eq" -> x = ScalarOf(fragment.value)
         [] fragment.op = "ne" -> x /= ScalarOf(fragment.value)
         [] fragment.op = "lt" -> x < fragment.value.num
         [] fragment.op = "lte" -> x <= fragment.value.num
         [] fragment.op = "gt" -> x > fragment.value.num
         [] fragment.op = "gte" -> x >= fragment.value.num
         [] fragment.op = "inArray" ->
                \E i \in 1..Len(fragment.value.arr) : x = fragment.value.arr[i]
         [] fragment.op = "like" -> LikeMatch(x, fragment.pattern)

Eval(fragment, row) ==
    CASE fragment.op = "and" ->
            \A i \in 1..Len(fragment.args) : EvalLeaf(fragment.args[i], row)
      [] fragment.op = "or" ->
            \E i \in 1..Len(fragment.args) : EvalLeaf(fragment.args[i], row)
      [] OTHER -> EvalLeaf(fragment, row)

\* .where(...clause): the fragments are conjoined; no fragment, no filter.
Matches(clause, row) == \A i \in 1..Len(clause) : Eval(clause[i], row)

(***************************************************************************)
(* Condition compiler.                                                     *)
(***************************************************************************)
\* One element of where.map: the condition of clause w, or the error thrown.
\* An absent operator ("") defaults to "eq".
Condition(model, columns, w) ==
    LET field == getField(model, w.field) IN
    IF ~field.ok THEN [ok |-> FALSE, error |-> field.error]
    ELSE IF field.column \notin columns
    THEN [ok |-> FALSE, error |-> BetterAuthError("UnknownField", w.field, model)]
    ELSE LET operator == IF w.operator = "" THEN "eq" ELSE w.operator
             col == field.column
         IN
         IF operator \in {"eq", "ne", "lt", "lte", "gt", "gte"}
         THEN [ok |-> TRUE, condition |-> Leaf(operator, col, w.value),
               connector |-> w.connector]
         ELSE IF operator = "in"
         THEN IF ~Has(w.value, "arr")
              THEN [ok |-> FALSE,
                    error |-> BetterAuthError("InvalidOperatorValue", w.field, model)]
              ELSE [ok |-> TRUE, condition |-> Leaf("inArray", col, w.value),
                    connector |-> w.connector]
         ELSE IF operator = "contains"
         THEN [ok |-> TRUE,
               condition |-> Like(col, <<"%">> \o w.value.str \o <<"%">>),
               connector |-> w.connector]
         ELSE IF operator = "starts_with"
         THEN [ok |-> TRUE,
               condition |-> Like(col, w.value.str \o <<"%">>),
               connector |-> w.connector]
         ELSE IF operator = "ends_with"
         THEN [ok |-> TRUE,
               condition |-> Like(col, <<"%">> \o w.value.str),
               connector |-> w.connector]
         ELSE [ok |-> FALSE,
               error |-> BetterAuthError("UnsupportedOperator", w.field, model)]

IsAndConnector(c) == c.connector = "AND" \/ c.connector = ""

IsOrConnector(c) == c.connector = "OR"

ConditionsOf(cs) == [i \in 1..Len(cs) |-> cs[i].condition]

\* Combine with the OR-group joined by and(): the variant C6 is tested against.
CombineAlt(conditions) ==
    IF Len(conditions) = 1 THEN <<conditions[1].condition>>
    ELSE LET andConditions == ConditionsOf(SelectSeq(conditions, IsAndConnector))
             orConditions == ConditionsOf(SelectSeq(conditions, IsOrConnector))
         IN (IF Len(andConditions) > 0 THEN <<and(andConditions)>> ELSE <<>>)
            \o (IF Len(orConditions) > 0 THEN <<and(orConditions)>> ELSE <<>>)

\* The two-group combination of lines 125-151.
Combine(conditions) ==
    IF Len(conditions) = 1 THEN <<conditions[1].condition>>
    ELSE LET andConditions == ConditionsOf(SelectSeq(conditions, IsAndConnector))
             orConditions == ConditionsOf(SelectSeq(conditions, IsOrConnector))
         IN (IF Len(andConditions) > 0 THEN <<and(andConditions)>> ELSE <<>>)
            \o (IF Len(orConditions) > 0 THEN <<or(orConditions)>> ELSE <<>>)

convertWhereClause(cfg, model, where) ==
    IF Len(where) = 0 THEN [ok |-> TRUE, clause |-> <<>>]
    ELSE LET schemaModel == getSchema(cfg, model) IN
         IF ~schemaModel.ok THEN [ok |-> FALSE, error |-> schemaModel.error]
         ELSE LET conditions ==
                     [i \in 1..Len(where) |->
                         Condition(model, schemaModel.columns, where[i])]
                  failed == {i \in 1..Len(where) : ~conditions[i].ok}
              IN IF failed /= {}
                 THEN [ok |-> FALSE,
                       error |-> conditions[CHOOSE i \in failed :
                                               \A j \in failed : i <= j].error]
                 ELSE [ok |-> TRUE, clause |-> Combine(conditions)]

(***************************************************************************)
(* Record transformer.                                                     *)
(***************************************************************************)
\* withApplyDefault of ../utils: on create an undefined value of a field
\* with a default becomes the default; on update the value is kept.  The
\* value is given as the data object and the key to read.
withApplyDefault(data, key, field, action) ==
    IF action = "update" THEN
        (IF Has(data, key) THEN [defined |-> TRUE, value |-> data[key]]
         ELSE [defined |-> FALSE])
    ELSE IF ~Has(data, key) /\ Has(field, "defaultValue")
         THEN [defined |-> TRUE, value |-> field.defaultValue]
         ELSE IF Has(data, key) THEN [defined |-> TRUE, value |-> data[key]]
              ELSE [defined |-> FALSE]

useDatabaseGeneratedId(cfg) == cfg.generateId = "false"

\* The identity injected on create (lines 162-171).  hookId is the value
\* options.advanced.generateId returns, localId the value of generateId().
InjectedId(cfg, data, hookId, localId) ==
    IF cfg.generateId = "hook" THEN hookId
    ELSE IF Has(data, "id") THEN data.id
    ELSE localId

\* Whether evaluating the identity expression calls the hook.
HookInvoked(cfg, action) ==
    ~useDatabaseGeneratedId(cfg) /\ action /= "update" /\ cfg.generateId = "hook"

RECURSIVE WriteFields(_, _, _, _, _)
WriteFields(order, fields, data, action, transformedData) ==
    IF order = <<>> THEN transformedData
    ELSE LET field == Head(order)
             v == withApplyDefault(data, field, fields[field], action)
         IN IF (~Has(data, field) /\ ~Has(fields[field], "defaultValue"))
               \/ ~v.defined
            THEN WriteFields(Tail(order), fields, data, action, transformedData)
            ELSE WriteFields(Tail(order), fields, data, action,
                    Put(transformedData, ColumnOf(fields[field], field), v.value))

transformInput(cfg, data, model, action, hookId, localId) ==
    LET transformedData ==
            IF useDatabaseGeneratedId(cfg) \/ action = "update" THEN EmptyObject
            ELSE [id |-> InjectedId(cfg, data, hookId, localId)]
    IN WriteFields(AuthTables[model].order, AuthTables[model].fields,
                   data, action, transformedData)

InSelect(select, key) == \E i \in 1..Len(select) : select[i] = key

\* ReadFields reading each field under its logical name: the variant C8 is
\* tested against.
RECURSIVE ReadFieldsAlt(_, _, _, _, _)
ReadFieldsAlt(order, fields, data, select, transformedData) ==
    IF order = <<>> THEN transformedData
    ELSE LET key == Head(order) IN
         IF (Len(select) > 0 /\ ~InSelect(select, key)) \/ ~Has(data, key)
         THEN ReadFieldsAlt(Tail(order), fields, data, select, transformedData)
         ELSE ReadFieldsAlt(Tail(order), fields, data, select,
                    Put(transformedData, key, data[key]))

\* The loop of lines 200-209.
RECURSIVE ReadFields(_, _, _, _, _)
ReadFields(order, fields, data, select, transformedData) ==
    IF order = <<>> THEN transformedData
    ELSE LET key == Head(order)
             column == ColumnOf(fields[key], key)
         IN IF (Len(select) > 0 /\ ~InSelect(select, key)) \/ ~Has(data, column)
            THEN ReadFields(Tail(order), fields, data, select, transformedData)
            ELSE ReadFields(Tail(order), fields, data, select,
                    Put(transformedData, key, data[column]))

transformOutput(data, model, select) ==
    IF data = Undefined \/ data = Null THEN Null
    ELSE LET transformedData ==
                 IF Has(data, "id") /\ (Len(select) = 0 \/ InSelect(select, "id"))
                 THEN [id |-> data.id]
                 ELSE EmptyObject
         IN ReadFields(AuthTables[model].order, AuthTables[model].fields,
                       data, select, transformedData)

(***************************************************************************)
(* Configurations of the adapter.                                          *)
(***************************************************************************)
Providers == {"pg", "mysql", "sqlite"}

Configs ==
    [provider : Providers, usePlural : BOOLEAN, hasSchema : BOOLEAN,
     generateId : {"false", "hook", "unset"}]

Idle == [phase |-> "idle"]

(***************************************************************************)
(* Runs of the condition compiler on its own: the clause sequence and the  *)
(* row to evaluate the result on are drawn in CompileInit.                 *)
(***************************************************************************)
Clause(field, operator, value, connector) ==
    [field |-> field, operator |-> operator, value |-> value,
     connector |-> connector]

ClausePool ==
    {Clause("name", "", [str |-> A], ""),
     Clause("name", "ne", [str |-> B], "AND"),
     Clause("name", "contains", [str |-> B], "OR"),
     Clause("name", "starts_with", [str |-> A], "OR"),
     Clause("name", "ends_with", [str |-> A], "AND"),
     Clause("age", "lt", [num |-> 7], "OR"),
     Clause("age", "lte", [num |-> 2], "AND"),
     Clause("age", "gt", [num |-> 2], "OR"),
     Clause("age", "gte", [num |-> 3], ""),
     Clause("age", "in", [arr |-> <<2, 7>>], "OR"),
     Clause("id", "eq", [num |-> 1], "AND")}

RowPool ==
    {[id |-> 1, full_name |-> A, age |-> 2],
     [id |-> 2, full_name |-> AB, age |-> 7],
     [id |-> 1, full_name |-> BA],
     [id |-> 3, full_name |-> B, age |-> 3],
     [id |-> 2, full_name |-> A, age |-> 3],
     [id |-> 3, age |-> 2]}

SeqsUpTo(S, n) == UNION {[1..k -> S] : k \in 0..n}

CompileConfig ==
    [provider |-> "pg", usePlural |-> FALSE, hasSchema |-> TRUE,
     generateId |-> "unset"]

CompileInit ==
    /\ config = CompileConfig
    /\ table = <<>>
    /\ req = Idle
    /\ log = <<>>
    /\ hookCalls = 0
    /\ foreign = 0
    /\ cin \in [where : SeqsUpTo(ClausePool, MaxClauses), row : RowPool]
    /\ cout = Idle
    /\ tin = Idle
    /\ tout = Idle

Compile ==
    /\ cout = Idle
    /\ cout' = [phase |-> "done",
                result |-> convertWhereClause(config, "user", cin.where)]
    /\ UNCHANGED <<config, table, req, log, hookCalls, foreign, cin, tin, tout>>

CompileNext == Compile

SpecCompile == CompileInit /\ [][CompileNext]_vars

\* What clause w asks of a row, stated directly on the row's values.
IsInfix(v, x) ==
    \E i \in 1..(Len(x) + 1) : \E j \in (i - 1)..Len(x) : SubSeq(x, i, j) = v

IsPrefix(v, x) == Len(v) <= Len(x) /\ SubSeq(x, 1, Len(v)) = v

IsSuffix(v, x) ==
    Len(v) <= Len(x) /\ SubSeq(x, Len(x) - Len(v) + 1, Len(x)) = v

Satisfies(row, w) ==
    LET column == IF w.field = "id" THEN "id"
                  ELSE ColumnOf(AuthTables["user"].fields[w.field], w.field)
    IN /\ Has(row, column)
       /\ LET x == row[column] IN
          CASE w.operator \in {"", "eq"} -> x = ScalarOf(w.value)
            [] w.operator = "ne" -> x /= ScalarOf(w.value)
            [] w.operator = "lt" -> x < w.value.num
            [] w.operator = "lte" -> x <= w.value.num
            [] w.operator = "gt" -> x > w.value.num
            [] w.operator = "gte" -> x >= w.value.num
            [] w.operator = "in" ->
                   \E i \in 1..Len(w.value.arr) : x = w.value.arr[i]
            [] w.operator = "contains" -> IsInfix(w.value.str, x)
            [] w.operator = "starts_with" -> IsPrefix(w.value.str, x)
            [] w.operator = "ends_with" -> IsSuffix(w.value.str, x)

AndGroup(where) == {i \in 1..Len(where) : where[i].connector \in {"AND", ""}}
OrGroup(where) == {i \in 1..Len(where) : where[i].connector = "OR"}

\* C6: for two or more clauses the compiler returns at most two fragments,
\* the AND-combination of the AND-group (connector AND or unspecified) and
\* then the OR-combination of the OR-group, each a flat combination of the
\* clauses' own conditions and present only when its group is not empty;
\* conjoined, the fragments hold of a row exactly when the row satisfies every
\* clause of the AND-group and, if the OR-group is not empty, some clause of
\* the OR-group.
C6_TwoGroupShape ==
    (cout.phase = "done" /\ Len(cin.where) >= 2) =>
        /\ cout.result.ok
        /\ LET clause == cout.result.clause
               ands == AndGroup(cin.where)
               ors == OrGroup(cin.where)
           IN /\ Len(clause) <= 2
              /\ Len(clause) = (IF ands = {} THEN 0 ELSE 1)
                                + (IF ors = {} THEN 0 ELSE 1)
              /\ ands /= {} => /\ clause[1].op = "and"
                               /\ Len(clause[1].args) = Cardinality(ands)
              /\ ors /= {} => /\ clause[Len(clause)].op = "or"
                              /\ Len(clause[Len(clause)].args) = Cardinality(ors)
              /\ \A i \in 1..Len(clause) :
                    \A k \in 1..Len(clause[i].args) : IsLeaf(clause[i].args[k])
              /\ Matches(clause, cin.row)
                    <=> /\ \A i \in ands : Satisfies(cin.row, cin.where[i])
                        /\ ors /= {} =>
                              \E i \in ors : Satisfies(cin.row, cin.where[i])

\* A mixed sequence whose OR-group decides the outcome on the row.
C6_Witness ==
    /\ cout.phase = "done"
    /\ Len(cin.where) = 3
    /\ AndGroup(cin.where) /= {}
    /\ Cardinality(OrGroup(cin.where)) = 2
    /\ Len(cout.result.clause) = 2
    /\ \A i \in AndGroup(cin.where) : Satisfies(cin.row, cin.where[i])
    /\ \E i \in OrGroup(cin.where) : Satisfies(cin.row, cin.where[i])
    /\ \E i \in OrGroup(cin.where) : ~Satisfies(cin.row, cin.where[i])
    /\ Matches(cout.result.clause, cin.row)

(***************************************************************************)
(* Runs of the record transformer on its own: toPhysical on create         *)
(* followed by toLogical without projection.                               *)
(***************************************************************************)
HookIds == {3}
LocalIds == {4}

Extend(S, key, values) == S \cup {Put(r, key, v) : r \in S, v \in values}

UserRecords ==
    Extend(Extend(Extend(Extend({EmptyObject}, "name", {A, B}),
                         "age", {2, 3}), "nick", {A}), "id", {1})

SessionRecords ==
    Extend(Extend(Extend(Extend({EmptyObject}, "token", {A, AB}),
                         "userId", {1, 2}), "ttl", {3}), "id", {2})

RecordsOf(model) == IF model = "user" THEN UserRecords ELSE SessionRecords

TransformInit ==
    /\ config \in {c \in Configs :
                      c.provider = "pg" /\ c.hasSchema /\ ~c.usePlural}
    /\ table = <<>>
    /\ req = Idle
    /\ log = <<>>
    /\ hookCalls = 0
    /\ foreign = 0
    /\ cin = Idle
    /\ cout = Idle
    /\ \E model \in Models :
          tin \in [model : {model}, data : RecordsOf(model)]
    /\ tout = Idle

RoundTrip ==
    /\ tout = Idle
    /\ \E hookId \in HookIds, localId \in LocalIds :
          LET physical == transformInput(config, tin.data, tin.model, "create",
                                         hookId, localId)
          IN tout' = [phase |-> "done", physical |-> physical,
                      logical |-> transformOutput(physical, tin.model, <<>>)]
    /\ UNCHANGED <<config, table, req, log, hookCalls, foreign, cin, cout, tin>>

TransformNext == RoundTrip

SpecTransform == TransformInit /\ [][TransformNext]_vars

\* C8: toLogical(toPhysical(r, model, create), model) without projection
\* gives every declared field that r has a value for exactly that value,
\* also when the field is stored under another column name.
C8_RoundTrip ==
    tout.phase = "done" =>
        \A field \in DOMAIN AuthTables[tin.model].fields :
            Has(tin.data, field) =>
                /\ Has(tout.logical, field)
                /\ tout.logical[field] = tin.data[field]

\* A record with a value for a renamed field went through both directions.
C8_Witness ==
    /\ tout.phase = "done"
    /\ tin.model = "user"
    /\ Has(tin.data, "name") /\ Has(tin.data, "age")
    /\ Has(tout.physical, "full_name") /\ ~Has(tout.physical, "name")
    /\ tout.logical.name = tin.data.name
    /\ tout.logical.age = tin.data.age

(***************************************************************************)
(* The execution engine: the "user" table is a sequence of physical rows   *)
(* in insertion order; a statement is executed in one step.                *)
(***************************************************************************)
First(rows) == IF Len(rows) = 0 THEN Undefined ELSE rows[1]

Select(t, clause) == SelectSeq(t, LAMBDA row : Matches(clause, row))

MaxId(t) ==
    IF Len(t) = 0 THEN 0
    ELSE CHOOSE n \in {t[i].id : i \in 1..Len(t)} :
            \A i \in 1..Len(t) : t[i].id <= n

\* insert: the identity is unique; a row inserted without one gets the next
\* auto-increment value.
ExecInsert(t, values) ==
    IF Has(values, "id") /\ \E i \in 1..Len(t) : t[i].id = values.id
    THEN [ok |-> FALSE, error |-> EngineError("DuplicateKey")]
    ELSE LET row == IF Has(values, "id") THEN values
                    ELSE Put(values, "id", MaxId(t) + 1)
         IN [ok |-> TRUE, table |-> Append(t, row), rows |-> <<row>>]

RECURSIVE Pick(_, _, _)
Pick(t, hit, i) ==
    IF i > Len(t) THEN <<>>
    ELSE (IF i \in hit THEN <<t[i]>> ELSE <<>>) \o Pick(t, hit, i + 1)

\* update ... set ... where: rows holds the rows the statement affected, as
\* they are after the statement (what returning() yields).
ExecUpdate(t, clause, set) ==
    LET hit == {i \in 1..Len(t) : Matches(clause, t[i])}
        t2 == [i \in 1..Len(t) |-> IF i \in hit THEN set @@ t[i] ELSE t[i]]
    IN [ok |-> TRUE, table |-> t2, rows |-> Pick(t2, hit, 1)]

ExecDelete(t, clause) == SelectSeq(t, LAMBDA row : ~Matches(clause, row))

\* select count(*): one result row with the column "count".
ExecCount(t, clause) == <<[count |-> Len(Select(t, clause))]>>

RECURSIVE InsertSorted(_, _, _, _)
InsertSorted(sorted, row, column, direction) ==
    IF sorted = <<>> THEN <<row>>
    ELSE IF (direction = "desc" /\ row[column] > Head(sorted)[column])
            \/ (direction /= "desc" /\ row[column] < Head(sorted)[column])
         THEN <<row>> \o sorted
         ELSE <<Head(sorted)>> \o InsertSorted(Tail(sorted), row, column, direction)

RECURSIVE OrderBy(_, _, _)
OrderBy(rows, column, direction) ==
    IF rows = <<>> THEN <<>>
    ELSE InsertSorted(OrderBy(SubSeq(rows, 1, Len(rows) - 1), column, direction),
                      rows[Len(rows)], column, direction)

LimitOffset(rows, limit, offset) ==
    LET last == IF offset + limit < Len(rows) THEN offset + limit ELSE Len(rows)
    IN SubSeq(rows, offset + 1, last)

\* A statement as recorded in the log of the call that issued it.
Statement(stmt, by) == [stmt |-> stmt, by |-> by]

(***************************************************************************)
(* The outcome of a facade call.                                           *)
(***************************************************************************)
Failed(error) == [kind |-> "error", error |-> error]
RowResult(row) == IF row = Null THEN [kind |-> "null"] ELSE [kind |-> "row", row |-> row]
RowsResult(rows) == [kind |-> "rows", rows |-> rows]
UndefinedResult == [kind |-> "undefined"]
VoidResult == [kind |-> "void"]
DriverResult == [kind |-> "driver"]

\* What a call leaves behind: the table, the statements issued, the number of
\* hook invocations and the call's own record (phase "done" or "afterWrite").
Outcome(t, statements, hooks, r) ==
    [table |-> t, log |-> statements, hookCalls |-> hooks, req |-> r]

NoWrite == [transformed |-> EmptyObject, builder |-> EmptyObject,
            returned |-> Undefined, native |-> Undefined]

Finish(call, t, statements, hooks, extra, result) ==
    Outcome(t, statements, hooks,
            [phase |-> "done", result |-> result] @@ extra @@ call)

Throw(call, t, statements, hooks, extra, error) ==
    Finish(call, t, statements, hooks, extra, Failed(error))

\* checkMissingFields: the first key of values the drizzle table lacks.
MissingKeys(columns, values) == {key \in DOMAIN values : key \notin columns}

checkMissingFields(columns, model, values) ==
    IF MissingKeys(columns, values) = {} THEN [ok |-> TRUE]
    ELSE [ok |-> FALSE,
          error |-> BetterAuthError("MissingField",
                        CHOOSE key \in MissingKeys(columns, values) : TRUE, model)]

(***************************************************************************)
(* Write reconciler.                                                       *)
(***************************************************************************)
InsertBuilder(values) == [kind |-> "insert", values |-> <<values>>]
UpdateBuilder(set, clause) == [kind |-> "update", set |-> set, clause |-> clause]

Execute(t, builder) ==
    IF builder.kind = "insert" THEN ExecInsert(t, builder.values[1])
    ELSE ExecUpdate(t, builder.clause, builder.set)

\* FollowUp without its first branch: the variant C2 is tested against.
FollowUpNoWhere(where, builder, data) ==
    IF Has(builder, "values")
    THEN IF Has(builder.values[1], "id")
         THEN [by |-> "statement", id |-> builder.values[1].id]
         ELSE [by |-> "throw"]
    ELSE IF Has(data, "id") THEN [by |-> "data", id |-> data.id]
    ELSE [by |-> "none"]

\* Lines 225-246: which follow-up read the reconciler performs.  The insert
\* builder's config.values holds one entry per written row with the written
\* keys only, so builderVal[0]?.id.value throws when no identity was written;
\* the update builder's config has no values.
FollowUp(where, builder, data) ==
    IF Len(where) > 0 THEN [by |-> "where"]
    ELSE IF Has(builder, "values")
    THEN IF Has(builder.values[1], "id")
         THEN [by |-> "statement", id |-> builder.values[1].id]
         ELSE [by |-> "throw"]
    ELSE IF Has(data, "id") THEN [by |-> "data", id |-> data.id]
    ELSE [by |-> "none"]

\* The predicate of the follow-up read.
FollowUpClause(cfg, model, where, plan) ==
    IF plan.by = "where" THEN convertWhereClause(cfg, model, where).clause
    ELSE <<Leaf("eq", "id", [num |-> plan.id])>>

\* FollowUpRow taking the last row: the variant C9 is tested against.
FollowUpRowAlt(t, clause) ==
    LET res == Select(t, clause) IN
    IF Len(res) = 0 THEN Undefined ELSE res[Len(res)]

\* res[0] of the follow-up read.
FollowUpRow(t, clause) == First(Select(t, clause))

\* withReturning up to and including its first await: on a backend with
\* native returning the statement yields the affected rows and the call ends;
\* on mysql the statement is executed and the call is suspended.
withReturning(cfg, t, call, hooks, builder, data) ==
    LET done == Execute(t, builder)
        write == Statement(builder.kind, "")
        extra == [transformed |-> data, builder |-> builder,
                  returned |-> Undefined, native |-> Undefined]
    IN IF ~done.ok THEN Throw(call, t, <<write>>, hooks, extra, done.error)
       ELSE IF cfg.provider /= "mysql"
       THEN Finish(call, done.table, <<write>>, hooks,
                   [transformed |-> data, builder |-> builder,
                    returned |-> First(done.rows), native |-> First(done.rows)],
                   RowResult(transformOutput(First(done.rows), call.model, <<>>)))
       ELSE Outcome(done.table, <<write>>, hooks,
                    [phase |-> "afterWrite", result |-> UndefinedResult,
                     transformed |-> data, builder |-> builder,
                     returned |-> Undefined, native |-> First(done.rows)] @@ call)

\* withReturning after builder.execute() has completed (lines 224-246) and
\* the caller's transformOutput of what it returns.  getSchema and
\* convertWhereClause succeeded on the same arguments before the write, so
\* they succeed here.
afterWrite(cfg, t, r, statements, hooks) ==
    LET plan == FollowUp(r.where, r.builder, r.transformed)
        row == FollowUpRow(t, FollowUpClause(cfg, r.model, r.where, plan))
    IN IF plan.by = "throw"
       THEN Outcome(t, statements, hooks,
                    [phase |-> "done",
                     result |-> Failed(TypeError("id", r.model))] @@ r)
       ELSE IF plan.by = "none"
       THEN Outcome(t, statements, hooks,
                    [phase |-> "done", returned |-> Undefined,
                     result |-> RowResult(transformOutput(Undefined, r.model, <<>>))]
                    @@ r)
       ELSE Outcome(t, Append(statements, [stmt |-> "select"] @@ plan), hooks,
                    [phase |-> "done", returned |-> row,
                     result |-> RowResult(transformOutput(row, r.model, <<>>))]
                    @@ r)

(***************************************************************************)
(* The CRUD facade.  Each operator is the call up to its first suspension  *)
(* after a statement was issued, or up to the error it throws before.      *)
(***************************************************************************)
create(cfg, t, call) ==
    LET transformed == transformInput(cfg, call.data, call.model, "create",
                                      call.hookId, call.localId)
        hooks == IF HookInvoked(cfg, "create") THEN 1 ELSE 0
        schemaModel == getSchema(cfg, call.model)
    IN IF ~schemaModel.ok
       THEN Throw(call, t, <<>>, hooks, NoWrite, schemaModel.error)
       ELSE LET checked == checkMissingFields(schemaModel.columns,
                               getModelName(cfg, call.model), transformed)
            IN IF ~checked.ok
               THEN Throw(call, t, <<>>, hooks, NoWrite, checked.error)
               ELSE withReturning(cfg, t, call, hooks,
                                  InsertBuilder(transformed), transformed)

findOne(cfg, t, call) ==
    LET schemaModel == getSchema(cfg, call.model)
        clause == convertWhereClause(cfg, call.model, call.where)
    IN IF ~schemaModel.ok THEN Throw(call, t, <<>>, 0, NoWrite, schemaModel.error)
       ELSE IF ~clause.ok THEN Throw(call, t, <<>>, 0, NoWrite, clause.error)
       ELSE LET res == Select(t, clause.clause) IN
            Finish(call, t, <<Statement("select", "where")>>, 0, NoWrite,
                   IF Len(res) = 0 THEN RowResult(Null)
                   ELSE RowResult(transformOutput(res[1], call.model, call.select)))

findMany(cfg, t, call) ==
    LET schemaModel == getSchema(cfg, call.model)
        clause == convertWhereClause(cfg, call.model, call.where)
        sortField == getField(call.model, call.sortBy.field)
        limit == IF call.limit = 0 THEN 100 ELSE call.limit
    IN IF ~schemaModel.ok THEN Throw(call, t, <<>>, 0, NoWrite, schemaModel.error)
       ELSE IF ~clause.ok THEN Throw(call, t, <<>>, 0, NoWrite, clause.error)
       ELSE IF call.sortBy.field /= "" /\ ~sortField.ok
       THEN Throw(call, t, <<>>, 0, NoWrite, sortField.error)
       ELSE LET found == Select(t, clause.clause)
                ordered == IF call.sortBy.field = "" THEN found
                           ELSE OrderBy(found, sortField.column,
                                        call.sortBy.direction)
                res == LimitOffset(ordered, limit, call.offset)
            IN Finish(call, t, <<Statement("select", "where")>>, 0, NoWrite,
                      RowsResult([i \in 1..Len(res) |->
                                     transformOutput(res[i], call.model, <<>>)]))

\* A property of a JavaScript array that is neither an index nor "length".
ArrayGet(array, key) ==
    IF key = "length" THEN [num |-> Len(array)] ELSE Undefined

count(cfg, t, call) ==
    LET schemaModel == getSchema(cfg, call.model)
        clause == convertWhereClause(cfg, call.model, call.where)
    IN IF ~schemaModel.ok THEN Throw(call, t, <<>>, 0, NoWrite, schemaModel.error)
       ELSE IF ~clause.ok THEN Throw(call, t, <<>>, 0, NoWrite, clause.error)
       ELSE LET res == ExecCount(t, clause.clause)
                value == ArrayGet(res, "count")
            IN Finish(call, t, <<Statement("count", "where")>>, 0, NoWrite,
                      IF value = Undefined THEN UndefinedResult
                      ELSE [kind |-> "number", n |-> value.num])

update(cfg, t, call) ==
    LET schemaModel == getSchema(cfg, call.model)
        clause == convertWhereClause(cfg, call.model, call.where)
        transformed == transformInput(cfg, call.data, call.model, "update",
                                      call.hookId, call.localId)
    IN IF ~schemaModel.ok THEN Throw(call, t, <<>>, 0, NoWrite, schemaModel.error)
       ELSE IF ~clause.ok THEN Throw(call, t, <<>>, 0, NoWrite, clause.error)
       ELSE withReturning(cfg, t, call, 0,
                          UpdateBuilder(transformed, clause.clause), transformed)

\* res.changes / res.length of updateMany and deleteMany are properties of
\* the driver's result object, which is not represented.
updateMany(cfg, t, call) ==
    LET schemaModel == getSchema(cfg, call.model)
        clause == convertWhereClause(cfg, call.model, call.where)
        transformed == transformInput(cfg, call.data, call.model, "update",
                                      call.hookId, call.localId)
    IN IF ~schemaModel.ok THEN Throw(call, t, <<>>, 0, NoWrite, schemaModel.error)
       ELSE IF ~clause.ok THEN Throw(call, t, <<>>, 0, NoWrite, clause.error)
       ELSE Finish(call, ExecUpdate(t, clause.clause, transformed).table,
                   <<Statement("update", "")>>, 0,
                   [transformed |-> transformed] @@ NoWrite, DriverResult)

delete(cfg, t, call) ==
    LET schemaModel == getSchema(cfg, call.model)
        clause == convertWhereClause(cfg, call.model, call.where)
    IN IF ~schemaModel.ok THEN Throw(call, t, <<>>, 0, NoWrite, schemaModel.error)
       ELSE IF ~clause.ok THEN Throw(call, t, <<>>, 0, NoWrite, clause.error)
       ELSE Finish(call, ExecDelete(t, clause.clause),
                   <<Statement("delete", "")>>, 0, NoWrite, VoidResult)

deleteMany(cfg, t, call) ==
    LET schemaModel == getSchema(cfg, call.model)
        clause == convertWhereClause(cfg, call.model, call.where)
    IN IF ~schemaModel.ok THEN Throw(call, t, <<>>, 0, NoWrite, schemaModel.error)
       ELSE IF ~clause.ok THEN Throw(call, t, <<>>, 0, NoWrite, clause.error)
       ELSE Finish(call, ExecDelete(t, clause.clause),
                   <<Statement("delete", "")>>, 0, NoWrite, DriverResult)

(***************************************************************************)
(* Calls made to the facade.                                               *)
(***************************************************************************)
MaxForeign == 1

CreateData ==
    {[name |-> A],
     [id |-> 1, name |-> A],
     [name |-> B, age |-> 2],
     [name |-> A, nick |-> A]}

UpdateData == {[name |-> B], [age |-> 3]}

ValidWheres ==
    {<<>>,
     <<Clause("name", "", [str |-> A], "")>>,
     <<Clause("id", "eq", [num |-> 1], "")>>,
     <<Clause("name", "eq", [str |-> A], "OR"),
       Clause("age", "gte", [num |-> 7], "OR")>>}

InvalidWheres ==
    {<<Clause("ghost", "eq", [num |-> 1], "")>>,
     <<Clause("nick", "eq", [str |-> A], "")>>,
     <<Clause("age", "in", [num |-> 5], "")>>,
     <<Clause("age", "regex", [num |-> 5], "")>>}

Wheres == ValidWheres \cup InvalidWheres

NoSort == [field |-> "", direction |-> ""]

Sorts == {NoSort, [field |-> "id", direction |-> "desc"],
          [field |-> "ghost", direction |-> "asc"]}

Call(op, where, data) ==
    [op |-> op, model |-> "user", where |-> where, data |-> data,
     select |-> <<>>, sortBy |-> NoSort, limit |-> 0, offset |-> 0,
     hookId |-> 0, localId |-> 0]

Begin(outcome) ==
    /\ req' = outcome.req
    /\ table' = outcome.table
    /\ log' = outcome.log
    /\ hookCalls' = outcome.hookCalls
    /\ foreign' = 0
    /\ UNCHANGED <<config, cin, cout, tin, tout>>

Create ==
    /\ req = Idle
    /\ Len(table) < MaxRows
    /\ \E data \in CreateData, hookId \in HookIds, localId \in LocalIds :
          Begin(create(config, table,
                       [hookId |-> hookId, localId |-> localId]
                       @@ Call("create", <<>>, data)))

FindOne ==
    /\ req = Idle
    /\ \E where \in Wheres, select \in {<<>>, <<"name">>} :
        Begin(findOne(config, table,
                      [select |-> select] @@ Call("findOne", where, EmptyObject)))

FindMany ==
    /\ req = Idle
    /\ \E where \in Wheres, sortBy \in Sorts, page \in {<<0, 0>>, <<1, 1>>} :
        Begin(findMany(config, table,
                       [sortBy |-> sortBy, limit |-> page[1], offset |-> page[2]]
                       @@ Call("findMany", where, EmptyObject)))

Count ==
    /\ req = Idle
    /\ \E where \in Wheres :
        Begin(count(config, table, Call("count", where, EmptyObject)))

Update ==
    /\ req = Idle
    /\ \E where \in Wheres, data \in UpdateData :
        Begin(update(config, table, Call("update", where, data)))

UpdateMany ==
    /\ req = Idle
    /\ \E where \in Wheres, data \in UpdateData :
        Begin(updateMany(config, table, Call("updateMany", where, data)))

Delete ==
    /\ req = Idle
    /\ \E where \in Wheres :
        Begin(delete(config, table, Call("delete", where, EmptyObject)))

DeleteMany ==
    /\ req = Idle
    /\ \E where \in Wheres :
        Begin(deleteMany(config, table, Call("deleteMany", where, EmptyObject)))

\* The suspended create or update resumes after builder.execute().
Reconcile ==
    /\ req.phase = "afterWrite"
    /\ LET outcome == afterWrite(config, table, req, log, hookCalls) IN
          /\ req' = outcome.req
          /\ log' = outcome.log
    /\ UNCHANGED <<config, table, hookCalls, foreign, cin, cout, tin, tout>>

\* While the call is suspended, the single statement of another request's
\* deleteMany or updateMany is executed.
OtherDeleteMany ==
    /\ req.phase = "afterWrite"
    /\ foreign < MaxForeign
    /\ \E where \in ValidWheres :
          table' = deleteMany(config, table,
                              Call("deleteMany", where, EmptyObject)).table
    /\ foreign' = foreign + 1
    /\ UNCHANGED <<config, req, log, hookCalls, cin, cout, tin, tout>>

OtherUpdateMany ==
    /\ req.phase = "afterWrite"
    /\ foreign < MaxForeign
    /\ \E where \in ValidWheres, data \in UpdateData :
          table' = updateMany(config, table,
                              Call("updateMany", where, data)).table
    /\ foreign' = foreign + 1
    /\ UNCHANGED <<config, req, log, hookCalls, cin, cout, tin, tout>>

\* The result is handed to the caller.
Return ==
    /\ req.phase = "done"
    /\ req' = Idle
    /\ log' = <<>>
    /\ hookCalls' = 0
    /\ foreign' = 0
    /\ UNCHANGED <<config, table, cin, cout, tin, tout>>

Init ==
    /\ config \in Configs
    /\ table = <<>>
    /\ req = Idle
    /\ log = <<>>
    /\ hookCalls = 0
    /\ foreign = 0
    /\ cin = Idle
    /\ cout = Idle
    /\ tin = Idle
    /\ tout = Idle

Next ==
    \/ Create
    \/ FindOne
    \/ FindMany
    \/ Count
    \/ Update
    \/ UpdateMany
    \/ Delete
    \/ DeleteMany
    \/ Reconcile
    \/ OtherDeleteMany
    \/ OtherUpdateMany
    \/ Return

Spec == Init /\ [][Next]_vars

(***************************************************************************)
(* Properties of the facade.                                               *)
(***************************************************************************)
Suspending == req.phase /= "idle" /\ req.op \in {"create", "update"}
                /\ config.provider = "mysql"

EngineFailed == req.result.kind = "error" /\ req.result.error.origin = "engine"

WriteStatements == {"insert", "update"}

\* The identity carried by the executed statement, if any.
StatementHasId == Has(req.builder, "values") /\ Has(req.builder.values[1], "id")

\* C1: an update with match clauses that no other request interferes with
\* returns, on a backend without native returning support, what it returns
\* on a backend with it: the first row the write affected, as written.
C1_UpdateReturnsAffectedRow ==
    (/\ req.phase = "done"
     /\ req.op = "update"
     /\ config.provider = "mysql"
     /\ Len(req.where) > 0
     /\ req.result.kind /= "error"
     /\ foreign = 0)
    => req.result = RowResult(transformOutput(req.native, req.model, <<>>))

\* C2: on a backend without native returning support every create or update
\* that returns has issued its write and then exactly one follow-up read, and
\* returns the first row of that read.
C2_ExactlyOneRead ==
    (/\ req.phase = "done"
     /\ Suspending
     /\ Len(log) >= 1
     /\ req.result.kind /= "error")
    => /\ Len(log) = 2
       /\ log[1].stmt \in WriteStatements
       /\ log[2].stmt = "select"

\* C2 as amended: the write is issued first and is followed by at most one
\* read; the read is by the match clauses if there are any, else by the
\* identity the statement carries, else by the identity in the written values,
\* exactly one read being issued when one of the three is available and none
\* otherwise; the first row of the read is what is returned; an insert whose
\* identity is not database-generated is followed by exactly one read keyed by
\* the identity written.
C2_AtMostOneRead ==
    (/\ req.phase = "done"
     /\ Suspending
     /\ Len(log) >= 1
     /\ ~EngineFailed)
    => /\ log[1].stmt \in WriteStatements
       /\ Len(log) <= 2
       /\ Len(log) = 2 => log[2].stmt = "select"
       /\ Len(req.where) > 0 =>
             /\ Len(log) = 2
             /\ log[2].by = "where"
             /\ req.returned =
                  First(Select(table,
                        convertWhereClause(config, req.model, req.where).clause))
       /\ (Len(req.where) = 0 /\ StatementHasId) =>
             /\ Len(log) = 2
             /\ log[2].by = "statement"
             /\ log[2].id = req.builder.values[1].id
             /\ req.returned =
                  First(SelectSeq(table, LAMBDA row : row.id = log[2].id))
       /\ (Len(req.where) = 0 /\ ~Has(req.builder, "values")
             /\ Has(req.transformed, "id")) =>
             /\ Len(log) = 2
             /\ log[2].by = "data"
             /\ log[2].id = req.transformed.id
       /\ (Len(req.where) = 0 /\ ~StatementHasId
             /\ ~Has(req.transformed, "id")) => Len(log) = 1
       /\ (req.op = "create" /\ ~useDatabaseGeneratedId(config)) =>
             /\ Len(log) = 2
             /\ log[2].id = req.transformed.id

\* An insert of [name |-> "a"] with a locally generated identity was read back
\* by that identity.
C2_Witness ==
    /\ req.phase = "done"
    /\ Suspending
    /\ req.op = "create"
    /\ ~Has(req.data, "id")
    /\ config.generateId = "unset"
    /\ Len(log) = 2
    /\ log[2].by = "statement"
    /\ log[2].id = req.localId
    /\ req.returned /= Undefined
    /\ req.result.kind = "row"
    /\ req.result.row.id = req.localId

\* C3: a facade operation that failed with an error that does not come from
\* the execution engine has issued no statement.
C3_ErrorsBeforeStatements ==
    (/\ req.phase = "done"
     /\ req.result.kind = "error"
     /\ req.result.error.origin /= "engine")
    => log = <<>>

\* C4: on create with an identity that is not database-generated, the
\* identity written is the caller's if the caller supplied one, else the
\* hook's if a hook is configured, else a locally generated one, and the hook
\* is invoked only when the caller supplied none.
C4_CallerIdentityFirst ==
    (/\ req.phase /= "idle"
     /\ req.op = "create"
     /\ ~useDatabaseGeneratedId(config)
     /\ Len(log) >= 1)
    => /\ req.transformed.id =
            (IF Has(req.data, "id") THEN req.data.id
             ELSE IF config.generateId = "hook" THEN req.hookId
             ELSE req.localId)
       /\ hookCalls > 0 => ~Has(req.data, "id")

\* C5: on a backend without native returning support, a write without match
\* clauses whose statement and written values carry no identity completes
\* without an error, the reconciler returning undefined.
C5_NoEvidenceReturnsUndefined ==
    (/\ req.phase = "done"
     /\ Suspending
     /\ Len(log) >= 1
     /\ ~EngineFailed
     /\ Len(req.where) = 0
     /\ ~StatementHasId
     /\ ~Has(req.transformed, "id"))
    => /\ req.result.kind /= "error"
       /\ req.returned = Undefined

\* The field of clause w does not resolve to a column of the model's table.
Unresolved(model, columns, w) ==
    /\ w.field /= "id"
    /\ \/ ~FieldKnown(model, w.field)
       \/ ColumnOf(AuthTables[model].fields[w.field], w.field) \notin columns

\* C7: an operation given a clause whose field does not resolve to a column
\* of the model's table fails with UnknownField naming that field and the
\* model, and issues no statement.
C7_UnknownFieldError ==
    (/\ req.phase = "done"
     /\ getSchema(config, req.model).ok
     /\ \E i \in 1..Len(req.where) :
           Unresolved(req.model, getSchema(config, req.model).columns,
                      req.where[i]))
    => /\ req.result.kind = "error"
       /\ req.result.error.name = "UnknownField"
       /\ req.result.error.model = req.model
       /\ \E i \in 1..Len(req.where) : req.result.error.field = req.where[i].field
       /\ log = <<>>

\* C9: on a backend without native returning support the write and the
\* follow-up read are separate steps, the write first: while the call is
\* suspended it has issued its write and nothing else, and the row it returns
\* is the first one its read finds in the table as the table is at the time
\* of the read, after whatever other requests did in between.
C9_WriteThenSeparateRead ==
    Suspending =>
        /\ req.phase = "afterWrite" =>
              /\ Len(log) = 1
              /\ log[1].stmt \in WriteStatements
              /\ req.returned = Undefined
        /\ (req.phase = "done" /\ Len(log) = 2) =>
              /\ log[1].stmt \in WriteStatements
              /\ log[2].stmt = "select"
              /\ req.returned =
                   First(Select(table,
                      IF log[2].by = "where"
                      THEN convertWhereClause(config, req.model, req.where).clause
                      ELSE <<Leaf("eq", "id", [num |-> log[2].id])>>))

\* Another request's statement ran between the write and the read: the write
\* affected a row, yet the call returns no row or a row that differs from the
\* one it wrote.
C9_Witness ==
    /\ req.phase = "done"
    /\ Suspending
    /\ foreign = 1
    /\ Len(log) = 2
    /\ req.native /= Undefined
    /\ req.returned /= req.native

\* C10: count returns the number of rows that satisfy the compiled predicate.
C10_CountReturnsNumber ==
    (/\ req.phase = "done"
     /\ req.op = "count"
     /\ req.result.kind /= "error")
    => /\ req.result.kind = "number"
       /\ req.result.n =
            Len(Select(table,
                       convertWhereClause(config, req.model, req.where).clause))

====
